---- MODULE Spec2Model ----
(***************************************************************************)
(* Session manager (internal/session/session.go) and password hasher      *)
(* (internal/auth/password.go) of the "going" web scaffold.               *)
(*                                                                         *)
(* Session part: every goroutine is a process whose steps are the         *)
(* statements of the Go method it runs.  Time is a global integer clock;  *)
(* time.Now() reads it.  A *Session is a reference into `heap`, the map   *)
(* m.sessions holds references, so a goroutine that has left the lock     *)
(* still reaches the object through its local pointer.                    *)
(***************************************************************************)
EXTENDS Integers, Sequences, FiniteSets, TLC

\* ------------------------------------------------------------- bounds
MaxTime == 3          \* the clock runs 0..MaxTime
Lifetime == 2         \* cfg.Session.Lifetime, in clock units

Creators == {1, 2}    \* goroutines calling CreateSession (one call each)
Getters == {1, 2}     \* goroutines calling GetSession (again and again)
Deleters == {1}       \* goroutines calling DeleteSession (again and again)

\* ------------------------------------------------------------- values
NoSession == 0                    \* the nil *Session (references are creator numbers)
NoProc == <<"none", 0>>           \* nobody holds the write lock
Proc(kind, n) == <<kind, n>>

\* generateSessionID: 32 random bytes, base64url; distinct draws are taken to
\* be distinct ids (the collision probability of 256 random bits is ignored).
\* On a rand.Read error the id is the base64url text of time.Now().String(),
\* an injective function of the clock reading alone.
RandomID(c) == [kind |-> "rand", n |-> c]
TimeID(t) == [kind |-> "time", n |-> t]
generateSessionID(c, randOK, t) == IF randOK THEN RandomID(c) ELSE TimeID(t)

\* an id no CreateSession ever issued (a forged or stale cookie value)
BogusID == [kind |-> "rand", n |-> 0]

\* session.ExpiresAt.Before(now)
BeforeMutLate(expiresAt, t) == expiresAt + 1 < t
BeforeMutEarly(expiresAt, t) == expiresAt <= t
Before(expiresAt, t) == expiresAt < t

\* time.Now().Add(m.expiration)
AddMutShort(t, d) == t + d - 1
AddMutNow(t, d) == t
Add(t, d) == t + d

\* m.sessions[sessionID] = session
MapInsert(m, id, ref) == (id :> ref) @@ m

\* delete(m.sessions, id)
MapDeleteMutNoop(m, id) == m
MapDeleteMutAll(m, id) == <<>>
MapDelete(m, id) == [k \in DOMAIN m \ {id} |-> m[k]]

\* session, exists := m.sessions[sessionID]
MapLookup(m, id) == IF id \in DOMAIN m THEN m[id] ELSE NoSession

\* ------------------------------------------------------------- password hasher
\* Text is a sequence of one-character strings, bytes are 0..255.
MaxPwLen == 2         \* passwords have at most MaxPwLen characters
MaxSeed == 1          \* the random source is drawn with seeds 0..MaxSeed

PwChars == {"a", "$"}
ByteOf(c) == CASE c = "a" -> 97 [] c = "$" -> 36 [] OTHER -> 63
Bytes(text) == [i \in 1..Len(text) |-> ByteOf(text[i])]

Passwords == UNION {[1..n -> PwChars] : n \in 0..MaxPwLen}

\* defaultParams (lines 30-36) and argon2.Version
DefaultMemory == 64 * 1024
DefaultTime == 3
DefaultThreads == 4
DefaultSaltLength == 16
DefaultKeyLen == 32
ArgonVersion == 19

\* rand.Read(salt): the buffer a successful read fills
RandRead(seed, n) == [i \in 1..n |-> (seed * 131 + i * (83 + 2 * seed)) % 256]

Salts(n) == {RandRead(seed, n) : seed \in 0..MaxSeed}
                \cup {[i \in 1..n |-> 0], [i \in 1..n |-> 255]}

\* argon2.IDKey(password, salt, time, memory, threads, keyLen): a key of keyLen
\* bytes, a function of all six arguments taken to be collision-free (distinct
\* arguments that fit the key give distinct keys).  It panics when time < 1
\* or threads < 1.
KeyMaterial(pw, salt, time, memory, threads, keyLen) ==
    <<time % 256, memory % 256, (memory \div 256) % 256, (memory \div 65536) % 256,
      threads, keyLen % 256, Len(pw)>> \o pw \o salt

IDKey(pw, salt, time, memory, threads, keyLen) ==
    LET km == KeyMaterial(pw, salt, time, memory, threads, keyLen)
    IN  [i \in 1..keyLen |-> (km[((i - 1) % Len(km)) + 1] + 7 * i) % 256]

\* base64.RawStdEncoding: the standard alphabet, no padding
B64Alphabet ==
    <<"A","B","C","D","E","F","G","H","I","J","K","L","M","N","O","P",
      "Q","R","S","T","U","V","W","X","Y","Z","a","b","c","d","e","f",
      "g","h","i","j","k","l","m","n","o","p","q","r","s","t","u","v",
      "w","x","y","z","0","1","2","3","4","5","6","7","8","9","+","/">>

B64Char(v) == B64Alphabet[v + 1]
B64Value(c) == (CHOOSE i \in 1..64 : B64Alphabet[i] = c) - 1
IsB64(c) == \E i \in 1..64 : B64Alphabet[i] = c

RECURSIVE EncodeToStringPadded(_)
EncodeToStringPadded(b) ==
    IF Len(b) = 0 THEN <<>>
    ELSE IF Len(b) = 1 THEN
        <<B64Char(b[1] \div 4), B64Char((b[1] % 4) * 16), "=", "=">>
    ELSE IF Len(b) = 2 THEN
        <<B64Char(b[1] \div 4), B64Char((b[1] % 4) * 16 + b[2] \div 16),
          B64Char((b[2] % 16) * 4), "=">>
    ELSE
        <<B64Char(b[1] \div 4), B64Char((b[1] % 4) * 16 + b[2] \div 16),
          B64Char((b[2] % 16) * 4 + b[3] \div 64), B64Char(b[3] % 64)>>
        \o EncodeToStringPadded(SubSeq(b, 4, Len(b)))

\* base64.RawStdEncoding.EncodeToString: 3 bytes -> 4 characters, a tail of
\* 1 byte -> 2 characters, of 2 bytes -> 3 characters
RECURSIVE EncodeToString(_)
EncodeToString(b) ==
    IF Len(b) = 0 THEN <<>>
    ELSE IF Len(b) = 1 THEN
        <<B64Char(b[1] \div 4), B64Char((b[1] % 4) * 16)>>
    ELSE IF Len(b) = 2 THEN
        <<B64Char(b[1] \div 4), B64Char((b[1] % 4) * 16 + b[2] \div 16),
          B64Char((b[2] % 16) * 4)>>
    ELSE
        <<B64Char(b[1] \div 4), B64Char((b[1] % 4) * 16 + b[2] \div 16),
          B64Char((b[2] % 16) * 4 + b[3] \div 64), B64Char(b[3] % 64)>>
        \o EncodeToString(SubSeq(b, 4, Len(b)))

RECURSIVE DecodeQuanta(_)
DecodeQuanta(v) ==
    IF Len(v) = 0 THEN <<>>
    ELSE IF Len(v) = 2 THEN <<v[1] * 4 + v[2] \div 16>>
    ELSE IF Len(v) = 3 THEN
        <<v[1] * 4 + v[2] \div 16, (v[2] % 16) * 16 + v[3] \div 4>>
    ELSE
        <<v[1] * 4 + v[2] \div 16, (v[2] % 16) * 16 + v[3] \div 4,
          (v[3] % 4) * 64 + v[4]>>
        \o DecodeQuanta(SubSeq(v, 5, Len(v)))

\* base64.RawStdEncoding.DecodeString: line breaks are skipped, any other
\* character outside the alphabet (the padding '=' too) and a tail of one
\* character are a CorruptInputError; trailing bits are not checked.
DecodeString(text) ==
    LET t == SelectSeq(text, LAMBDA c : c \notin {"\n", "\r"})
    IN  IF (\E i \in 1..Len(t) : ~IsB64(t[i])) \/ Len(t) % 4 = 1
        THEN [err |-> "CorruptInputError", bytes |-> <<>>]
        ELSE [err |-> "nil",
              bytes |-> DecodeQuanta([i \in 1..Len(t) |-> B64Value(t[i])])]

\* the verb %d of fmt.Sprintf, for a number >= 0
Digits == <<"0", "1", "2", "3", "4", "5", "6", "7", "8", "9">>
RECURSIVE FormatInt(_)
FormatInt(n) ==
    IF n < 10 THEN <<Digits[n + 1]>>
    ELSE FormatInt(n \div 10) \o <<Digits[(n % 10) + 1]>>

IsDigit(c) == \E i \in 1..10 : Digits[i] = c
DigitValue(c) == (CHOOSE i \in 1..10 : Digits[i] = c) - 1

RECURSIVE ParseDigits(_)
ParseDigits(d) ==
    IF Len(d) = 0 THEN 0
    ELSE 10 * ParseDigits(SubSeq(d, 1, Len(d) - 1)) + DigitValue(d[Len(d)])

\* strings.Split(s, "$")
RECURSIVE Split(_)
Split(text) ==
    IF \A i \in 1..Len(text) : text[i] # "$" THEN <<text>>
    ELSE LET i == CHOOSE k \in 1..Len(text) :
                    text[k] = "$" /\ \A j \in 1..(k - 1) : text[j] # "$"
         IN  <<SubSeq(text, 1, i - 1)>> \o Split(SubSeq(text, i + 1, Len(text)))

\* fmt.Sscanf, a literal run of the format: the input must start with it
ScanLiteral(input, lit) ==
    IF Len(input) >= Len(lit) /\ SubSeq(input, 1, Len(lit)) = lit
    THEN [err |-> "nil", rest |-> SubSeq(input, Len(lit) + 1, Len(input))]
    ELSE [err |-> "ScanError", rest |-> input]

RECURSIVE SkipSpace(_)
SkipSpace(input) ==
    IF Len(input) > 0 /\ input[1] \in {" ", "\t"} THEN SkipSpace(Tail(input))
    ELSE input

RECURSIVE DigitRun(_)
DigitRun(input) ==
    IF Len(input) > 0 /\ IsDigit(input[1]) THEN 1 + DigitRun(Tail(input)) ELSE 0

\* fmt.Sscanf, the verb %d into an integer of the given width: blanks are
\* skipped, a sign is accepted for a signed target, at least one digit is
\* required, the digits end at the first other character (which stays
\* unread) and the value must fit the target.  Numerals of the model have at
\* most nine digits, so only the 8-bit target can overflow.
ScanInt(input, signed, bits) ==
    LET a == SkipSpace(input)
        hasSign == Len(a) > 0 /\ a[1] \in {"+", "-"}
        b == IF hasSign THEN Tail(a) ELSE a
        n == DigitRun(b)
        v == ParseDigits(SubSeq(b, 1, n))
    IN  IF (hasSign /\ ~signed) \/ n = 0 \/ (bits = 8 /\ v > 255)
        THEN [err |-> "ScanError", val |-> 0, rest |-> input]
        ELSE [err |-> "nil",
              val |-> IF hasSign /\ a[1] = "-" THEN 0 - v ELSE v,
              rest |-> SubSeq(b, n + 1, Len(b))]

\* fmt.Sprintf("$argon2id$v=%d$m=%d,t=%d,p=%d$%s$%s", ...)
AlgorithmTag == <<"a", "r", "g", "o", "n", "2", "i", "d">>
FormatHash(version, memory, time, threads, b64Salt, b64Hash) ==
    <<"$">> \o AlgorithmTag
    \o <<"$", "v", "=">> \o FormatInt(version)
    \o <<"$", "m", "=">> \o FormatInt(memory)
    \o <<",", "t", "=">> \o FormatInt(time)
    \o <<",", "p", "=">> \o FormatInt(threads)
    \o <<"$">> \o b64Salt \o <<"$">> \o b64Hash

HashPasswordMutWeakSalt(pw, randOK, salt) ==
    LET hash == IDKey(Bytes(pw), salt, DefaultTime, DefaultMemory,
                      DefaultThreads, DefaultKeyLen)
    IN  [encoded |-> FormatHash(ArgonVersion, DefaultMemory, DefaultTime,
                                DefaultThreads, EncodeToString(salt),
                                EncodeToString(hash)),
         err |-> "nil"]

\* HashPassword (lines 39-71); randOK: rand.Read returned no error
HashPassword(pw, randOK, salt) ==
    IF ~randOK THEN [encoded |-> <<>>, err |-> "RandomSourceFailure"]
    ELSE LET hash == IDKey(Bytes(pw), salt, DefaultTime, DefaultMemory,
                           DefaultThreads, DefaultKeyLen)
         IN  [encoded |-> FormatHash(ArgonVersion, DefaultMemory, DefaultTime,
                                     DefaultThreads, EncodeToString(salt),
                                     EncodeToString(hash)),
              err |-> "nil"]

\* HashPassword reaches argon2.IDKey (line 47) only past the return of line 43
HashCallsIDKey(randOK) == randOK

NoParams == [memory |-> 0, time |-> 0, threads |-> 0, keyLen |-> 0, saltLength |-> 0]
DecodeError(e) == [err |-> e, p |-> NoParams, salt |-> <<>>, hash |-> <<>>]

\* line 102: len(parts) != 6 || parts[0] != "" || parts[1] != "argon2id"
BadPartsMutAtLeast(parts) ==
    Len(parts) < 6 \/ parts[1] # <<>> \/ parts[2] # AlgorithmTag
BadParts(parts) ==
    Len(parts) # 6 \/ parts[1] # <<>> \/ parts[2] # AlgorithmTag

\* line 111: version != argon2.Version
VersionMismatchMutNewer(version) == version > ArgonVersion
VersionMismatch(version) == version # ArgonVersion

\* decodeHash (lines 100-136)
decodeHash(encodedHash) ==
    LET parts == Split(encodedHash)
    IN  IF BadParts(parts)
        THEN DecodeError("ErrInvalidHash")
        ELSE
        LET v0 == ScanLiteral(parts[3], <<"v", "=">>)
            v1 == ScanInt(v0.rest, TRUE, 64)
        IN  IF v0.err # "nil" \/ v1.err # "nil" THEN DecodeError("ScanError")
            ELSE IF VersionMismatch(v1.val) THEN DecodeError("ErrIncompatibleVersion")
            ELSE
            LET m0 == ScanLiteral(parts[4], <<"m", "=">>)
                m1 == ScanInt(m0.rest, FALSE, 32)
                t0 == ScanLiteral(m1.rest, <<",", "t", "=">>)
                t1 == ScanInt(t0.rest, FALSE, 32)
                p0 == ScanLiteral(t1.rest, <<",", "p", "=">>)
                p1 == ScanInt(p0.rest, FALSE, 8)
            IN  IF \/ m0.err # "nil" \/ m1.err # "nil" \/ t0.err # "nil"
                   \/ t1.err # "nil" \/ p0.err # "nil" \/ p1.err # "nil"
                THEN DecodeError("ScanError")
                ELSE
                LET salt == DecodeString(parts[5])
                    hash == DecodeString(parts[6])
                IN  IF salt.err # "nil" THEN DecodeError(salt.err)
                    ELSE IF hash.err # "nil" THEN DecodeError(hash.err)
                    ELSE [err |-> "nil",
                          p |-> [memory |-> m1.val, time |-> t1.val,
                                 threads |-> p1.val, keyLen |-> Len(hash.bytes),
                                 saltLength |-> Len(salt.bytes)],
                          salt |-> salt.bytes, hash |-> hash.bytes]

\* subtle.ConstantTimeCompare(x, y) == 1
ConstantTimeCompareMutLength(x, y) == Len(x) = Len(y)
ConstantTimeCompare(x, y) == x = y

\* argon2.IDKey panics ("number of rounds too small", "parallelism degree too
\* low") when time < 1 or threads < 1, and on a key length of 0, for which
\* its BLAKE2b output stage has no hash
IDKeyPanics(time, threads, keyLen) == time < 1 \/ threads < 1 \/ keyLen < 1

\* VerifyPassword reaches argon2.IDKey (line 82) only past the return of line 78
VerifyCallsIDKey(encodedHash) == decodeHash(encodedHash).err = "nil"

VerifyPasswordMutDefaults(pw, encodedHash) ==
    LET d == decodeHash(encodedHash)
    IN  IF d.err # "nil" THEN [matched |-> FALSE, err |-> d.err]
        ELSE LET hashToCompare == IDKey(Bytes(pw), d.salt, DefaultTime, DefaultMemory,
                                        DefaultThreads, DefaultKeyLen)
             IN  [matched |-> ConstantTimeCompare(d.hash, hashToCompare),
                  err |-> "nil"]

\* VerifyPassword (lines 74-97); "panic" stands for the process dying inside
\* argon2.IDKey
VerifyPassword(pw, encodedHash) ==
    LET d == decodeHash(encodedHash)
    IN  IF d.err # "nil" THEN [matched |-> FALSE, err |-> d.err]
        ELSE IF IDKeyPanics(d.p.time, d.p.threads, d.p.keyLen)
        THEN [matched |-> FALSE, err |-> "panic"]
        ELSE LET hashToCompare == IDKey(Bytes(pw), d.salt, d.p.time, d.p.memory,
                                        d.p.threads, d.p.keyLen)
             IN  [matched |-> ConstantTimeCompare(d.hash, hashToCompare),
                  err |-> "nil"]

\* ------------------------------------------------------------- stored hashes
\* The encoded strings VerifyPassword is called with that HashPassword did not
\* produce: each is put together from a leading segment, an algorithm tag, a
\* version field, a cost field, a salt segment and a key segment, and tagged
\* with the kind of every field.
VersionText(version) == <<"v", "=">> \o FormatInt(version)
CostText(memory, time, threads) ==
    <<"m", "=">> \o FormatInt(memory) \o <<",", "t", "=">> \o FormatInt(time)
    \o <<",", "p", "=">> \o FormatInt(threads)

VersionFields ==
    { [kind |-> "ok",       text |-> VersionText(ArgonVersion)],
      [kind |-> "other",    text |-> VersionText(ArgonVersion - 3)],
      [kind |-> "other",    text |-> VersionText(ArgonVersion + 1)],
      [kind |-> "trailing", text |-> VersionText(ArgonVersion) \o <<"x">>],
      [kind |-> "nonint",   text |-> <<"v", "=", "x">>],
      [kind |-> "missing",  text |-> <<>>] }

CostField(kind, text, memory, time, threads) ==
    [kind |-> kind, text |-> text, memory |-> memory, time |-> time,
     threads |-> threads]

CostFields ==
    { CostField("ok", CostText(DefaultMemory, DefaultTime, DefaultThreads),
                DefaultMemory, DefaultTime, DefaultThreads),
      CostField("ok", CostText(16, 2, 1), 16, 2, 1),
      CostField("zero", CostText(16, 0, 1), 16, 0, 1),
      CostField("zero", CostText(16, 2, 0), 16, 2, 0),
      CostField("range", CostText(16, 2, 300), 16, 2, 300),
      CostField("trailing", CostText(16, 2, 1) \o <<"x">>, 16, 2, 1),
      CostField("trailing", <<"m", "=", "1", "6", "x", ",", "t", "=", "2", ",",
                              "p", "=", "1">>, 16, 2, 1),
      CostField("missing", <<"m", "=", "1", "6", ",", "t", "=", "2">>, 16, 2, 1),
      CostField("nonint", <<"m", "=", ",", "t", "=", "2", ",", "p", "=", "1">>,
                16, 2, 1) }

B64Field(kind, text, bytes) == [kind |-> kind, text |-> text, bytes |-> bytes]

SaltFields ==
    { B64Field("ok", EncodeToString(RandRead(0, DefaultSaltLength)),
               RandRead(0, DefaultSaltLength)),
      B64Field("ok", EncodeToString(RandRead(1, 2)), RandRead(1, 2)),
      B64Field("empty", <<>>, <<>>),
      B64Field("padded", EncodeToString(RandRead(1, 2)) \o <<"=">>,
               RandRead(1, 2)) }

\* the key segments for a password, a cost field and a salt: the derivation of
\* the password under them at the default and at half the default length, a
\* key that is not that derivation, no key, and a padded key
KeyFields(pw, cost, salt) ==
    LET key(n) == IDKey(Bytes(pw), salt.bytes, cost.time, cost.memory,
                        cost.threads, n)
        long  == key(DefaultKeyLen)
        short == key(DefaultKeyLen \div 2)
        other == [short EXCEPT ![1] = (@ + 1) % 256]
    IN  { B64Field("derived", EncodeToString(long), long),
          B64Field("derived", EncodeToString(short), short),
          B64Field("other", EncodeToString(other), other),
          B64Field("empty", <<>>, <<>>),
          B64Field("padded", EncodeToString(short) \o <<"=", "=">>, short) }

StoredHash(lead, tag, shape, version, cost, salt, key) ==
    [lead |-> lead, tag |-> tag, shape |-> shape, version |-> version,
     cost |-> cost, salt |-> salt, key |-> key]

OtherTag == <<"a", "r", "g", "o", "n", "2", "i">>

\* leading segment, tag and segment count as decodeHash wants them (line 102)
ShapeOK(f) == f.lead = <<>> /\ f.tag = AlgorithmTag /\ f.shape = "six"

StoredHashes(pw) ==
    LET wellShaped ==
            UNION { { StoredHash(<<>>, AlgorithmTag, "six", v, c, s, k) :
                        k \in KeyFields(pw, c, s) } :
                    v \in VersionFields, c \in CostFields, s \in SaltFields }
        plain == { f \in wellShaped :
                     /\ f.version.kind \in {"ok", "nonint"}
                     /\ f.cost.kind = "ok" /\ f.cost.time = DefaultTime
                     /\ f.salt.kind = "ok" /\ Len(f.salt.bytes) = DefaultSaltLength
                     /\ f.key.kind \in {"derived", "empty"} }
        misShaped ==
            { StoredHash(lead, tag, shape, f.version, f.cost, f.salt, f.key) :
                lead \in {<<>>, <<"x">>}, tag \in {AlgorithmTag, OtherTag},
                shape \in {"five", "six", "seven"}, f \in plain }
    IN  wellShaped \cup misShaped

\* the text of a stored hash
EncodedOf(f) ==
    f.lead \o <<"$">> \o f.tag \o <<"$">> \o f.version.text \o <<"$">>
    \o f.cost.text \o <<"$">> \o f.salt.text
    \o (IF f.shape = "five" THEN <<>> ELSE <<"$">> \o f.key.text)
    \o (IF f.shape = "seven" THEN <<"$", "x">> ELSE <<>>)

VARIABLES
    now,          \* the clock time.Now() reads
    expiration,   \* Manager.expiration
    sessions,     \* Manager.sessions: id -> reference
    heap,         \* the Session objects: reference -> [ID, Values, ExpiresAt]
    writer,       \* Manager.mu: the goroutine holding the write lock
    readers,      \* Manager.mu: the getters holding the read lock
    cpc, cid,     \* CreateSession: position, local sessionID
    spc, snow, stodo, scur,   \* cleanupExpiredSessions: position, local now, range state
    gpc, gid, gsess, gres,    \* GetSession: position, argument, local session, result
    dpc, did,     \* DeleteSession: position, argument
    \* history (never read by the program)
    lastAccess,   \* reference -> time of creation or of the last refresh
    gvalid,       \* getter -> its id was present and unexpired at some moment of this call
    gelapsed,     \* getter -> time since lastAccess when it evaluated line 64 (-1: no entry)
    gafter,       \* getter -> what a completed Delete of its id had found, "" if none
    tomb,         \* id -> what the last completed Delete found, until the id is inserted again
    \* a caller of the password hasher
    hpc,          \* "start", "hashed", "verified"
    password,     \* the password given to HashPassword
    candidate,    \* the password given to VerifyPassword
    hashed,       \* what HashPassword returned: [encoded, err]
    verified,     \* what VerifyPassword returned: [matched, err]
    hrand,        \* rand.Read succeeded in the HashPassword call
    stored,       \* how the stored string given to VerifyPassword was made
    derived       \* the last call reached argon2.IDKey

svars == <<now, expiration, sessions, heap, writer, readers, cpc, cid,
           spc, snow, stodo, scur, gpc, gid, gsess, gres, dpc, did,
           lastAccess, gvalid, gelapsed, gafter, tomb>>

hvars == <<hpc, password, candidate, hashed, verified, hrand, stored, derived>>

vars == <<svars, hvars>>

\* ------------------------------------------------------------- helpers
Live(m, h, t, id) == id \in DOMAIN m /\ ~Before(h[m[id]].ExpiresAt, t)

\* ids a client can present: those CreateSession has returned, and a forged one
KnownIDs == {cid[c] : c \in {x \in Creators : cpc[x] = "done"}} \cup {BogusID}

LockFreeMutNoReaders == writer = NoProc
LockFree == writer = NoProc /\ readers = {}

\* bookkeeping of gvalid, evaluated on the state the step produces
Observe ==
    /\ UNCHANGED hvars
    /\ gvalid' = [g \in Getters |->
                   IF gpc'[g] \in {"idle", "off"} THEN FALSE
                   ELSE gvalid[g] \/ Live(sessions', heap', now', gid'[g])]

\* NewManager (lines 30-37): an empty map, a free lock, the configured lifetime.
\* cs, gs, ds: the goroutines that take part; the others never call.
SessionInit(cs, gs, ds) ==
    /\ now = 0
    /\ expiration = Lifetime
    /\ sessions = <<>>
    /\ heap = <<>>
    /\ writer = NoProc
    /\ readers = {}
    /\ cpc = [c \in Creators |-> IF c \in cs THEN "start" ELSE "off"]
    /\ cid = [c \in Creators |-> BogusID]
    /\ spc = [c \in Creators |-> "none"]
    /\ snow = [c \in Creators |-> 0]
    /\ stodo = [c \in Creators |-> {}]
    /\ scur = [c \in Creators |-> BogusID]
    /\ gpc = [g \in Getters |-> IF g \in gs THEN "idle" ELSE "off"]
    /\ gid = [g \in Getters |-> BogusID]
    /\ gsess = [g \in Getters |-> NoSession]
    /\ gres = [g \in Getters |-> "none"]
    /\ dpc = [d \in Deleters |-> IF d \in ds THEN "idle" ELSE "off"]
    /\ did = [d \in Deleters |-> BogusID]
    /\ lastAccess = <<>>
    /\ gvalid = [g \in Getters |-> FALSE]
    /\ gelapsed = [g \in Getters |-> -1]
    /\ gafter = [g \in Getters |-> ""]
    /\ tomb = <<>>
    /\ hpc = "off"
    /\ password = <<>>
    /\ candidate = <<>>
    /\ hashed = [encoded |-> <<>>, err |-> "nil"]
    /\ verified = [matched |-> FALSE, err |-> "nil"]
    /\ hrand = TRUE
    /\ stored = <<>>
    /\ derived = FALSE

\* cleanupExpiredSessions (lines 115-125) as one step: the map without the
\* entries whose ExpiresAt is before t
Sweep(m, h, t) == [k \in {id \in DOMAIN m : ~Before(h[m[id]].ExpiresAt, t)} |-> m[k]]

\* ------------------------------------------------------------- the clock
Tick ==
    /\ now < MaxTime
    /\ now' = now + 1
    /\ UNCHANGED <<expiration, sessions, heap, writer, readers, cpc, cid,
                   spc, snow, stodo, scur, gpc, gid, gsess, gres, dpc, did,
                   lastAccess, gelapsed, gafter, tomb>>
    /\ Observe

\* ------------------------------------------------------------- CreateSession
\* lines 41-46: sessionID := generateSessionID();
\* session := &Session{ID, Values: empty, ExpiresAt: time.Now().Add(m.expiration)}
CreateNew(c, randOK) ==
    /\ cpc[c] = "start"
    /\ cid' = [cid EXCEPT ![c] = generateSessionID(c, randOK, now)]
    /\ heap' = (c :> [ID |-> generateSessionID(c, randOK, now), Values |-> {},
                      ExpiresAt |-> Add(now, expiration)]) @@ heap
    /\ lastAccess' = (c :> now) @@ lastAccess
    /\ cpc' = [cpc EXCEPT ![c] = "lock"]
    /\ UNCHANGED <<now, expiration, sessions, writer, readers,
                   spc, snow, stodo, scur, gpc, gid, gsess, gres, dpc, did,
                   gelapsed, gafter, tomb>>
    /\ Observe

\* line 48: m.mu.Lock()
CreateLock(c) ==
    /\ cpc[c] = "lock"
    /\ LockFree
    /\ writer' = Proc("create", c)
    /\ cpc' = [cpc EXCEPT ![c] = "insert"]
    /\ UNCHANGED <<now, expiration, sessions, heap, readers, cid,
                   spc, snow, stodo, scur, gpc, gid, gsess, gres, dpc, did,
                   lastAccess, gelapsed, gafter, tomb>>
    /\ Observe

\* lines 49-55: m.sessions[sessionID] = session; m.mu.Unlock();
\* go m.cleanupExpiredSessions(); return session
CreateInsert(c) ==
    /\ cpc[c] = "insert"
    /\ sessions' = MapInsert(sessions, cid[c], c)
    /\ tomb' = [k \in DOMAIN tomb \ {cid[c]} |-> tomb[k]]
    /\ writer' = NoProc
    /\ spc' = [spc EXCEPT ![c] = "lock"]
    /\ cpc' = [cpc EXCEPT ![c] = "done"]
    /\ UNCHANGED <<now, expiration, heap, readers, cid,
                   snow, stodo, scur, gpc, gid, gsess, gres, dpc, did,
                   lastAccess, gelapsed, gafter>>
    /\ Observe

\* ------------------------------------------------------------- cleanupExpiredSessions
\* lines 116-120: m.mu.Lock() (the unlock is deferred to the return);
\* now := time.Now(); the range starts over the current keys
SweepLock(s) ==
    /\ spc[s] = "lock"
    /\ LockFree
    /\ writer' = Proc("sweep", s)
    /\ snow' = [snow EXCEPT ![s] = now]
    /\ stodo' = [stodo EXCEPT ![s] = DOMAIN sessions]
    /\ spc' = [spc EXCEPT ![s] = "loop"]
    /\ UNCHANGED <<now, expiration, sessions, heap, readers, cpc, cid,
                   scur, gpc, gid, gsess, gres, dpc, did,
                   lastAccess, gelapsed, gafter, tomb>>
    /\ Observe

\* lines 120-121: the next entry of the range (in any order) and the test
\* session.ExpiresAt.Before(now)
SweepExamine(s, id) ==
    /\ spc[s] = "loop"
    /\ id \in stodo[s]
    /\ IF Before(heap[sessions[id]].ExpiresAt, snow[s])
       THEN /\ scur' = [scur EXCEPT ![s] = id]
            /\ spc' = [spc EXCEPT ![s] = "del"]
            /\ stodo' = stodo
       ELSE /\ stodo' = [stodo EXCEPT ![s] = @ \ {id}]
            /\ UNCHANGED <<scur, spc>>
    /\ UNCHANGED <<now, expiration, sessions, heap, writer, readers, cpc, cid,
                   snow, gpc, gid, gsess, gres, dpc, did,
                   lastAccess, gelapsed, gafter, tomb>>
    /\ Observe

\* line 122: delete(m.sessions, id)
SweepDelete(s) ==
    /\ spc[s] = "del"
    /\ sessions' = MapDelete(sessions, scur[s])
    /\ stodo' = [stodo EXCEPT ![s] = @ \ {scur[s]}]
    /\ scur' = [scur EXCEPT ![s] = BogusID]
    /\ spc' = [spc EXCEPT ![s] = "loop"]
    /\ UNCHANGED <<now, expiration, heap, writer, readers, cpc, cid,
                   snow, gpc, gid, gsess, gres, dpc, did,
                   lastAccess, gelapsed, gafter, tomb>>
    /\ Observe

\* lines 117, 125: the range is exhausted, the deferred m.mu.Unlock() runs
SweepUnlock(s) ==
    /\ spc[s] = "loop"
    /\ stodo[s] = {}
    /\ writer' = NoProc
    /\ snow' = [snow EXCEPT ![s] = 0]
    /\ spc' = [spc EXCEPT ![s] = "done"]
    /\ UNCHANGED <<now, expiration, sessions, heap, readers, cpc, cid,
                   stodo, scur, gpc, gid, gsess, gres, dpc, did,
                   lastAccess, gelapsed, gafter, tomb>>
    /\ Observe

\* ------------------------------------------------------------- GetSession
\* lines 59-61: the call, m.mu.RLock() and
\* session, exists := m.sessions[sessionID]
GetRLock(g, id) ==
    /\ gpc[g] = "idle"
    /\ writer = NoProc
    /\ id \in KnownIDs
    /\ readers' = readers \cup {g}
    /\ gid' = [gid EXCEPT ![g] = id]
    /\ gsess' = [gsess EXCEPT ![g] = MapLookup(sessions, id)]
    /\ gafter' = [gafter EXCEPT ![g] = IF id \in DOMAIN tomb THEN tomb[id] ELSE ""]
    /\ gpc' = [gpc EXCEPT ![g] = "runlock"]
    /\ UNCHANGED <<now, expiration, sessions, heap, writer, cpc, cid,
                   spc, snow, stodo, scur, gres, dpc, did,
                   lastAccess, gelapsed, tomb>>
    /\ Observe

\* line 62: m.mu.RUnlock()
GetRUnlock(g) ==
    /\ gpc[g] = "runlock"
    /\ readers' = readers \ {g}
    /\ gpc' = [gpc EXCEPT ![g] = "check"]
    /\ UNCHANGED <<now, expiration, sessions, heap, writer, cpc, cid,
                   spc, snow, stodo, scur, gid, gsess, gres, dpc, did,
                   lastAccess, gelapsed, gafter, tomb>>
    /\ Observe

\* lines 64-66: if !exists || session.ExpiresAt.Before(time.Now()) { return nil, err }
\* The read of ExpiresAt is made with no lock held.
GetCheck(g) ==
    /\ gpc[g] = "check"
    /\ IF gsess[g] = NoSession
       THEN /\ gres' = [gres EXCEPT ![g] = "NotFound"]
            /\ gpc' = [gpc EXCEPT ![g] = "ret"]
            /\ gelapsed' = [gelapsed EXCEPT ![g] = -1]
       ELSE /\ gelapsed' = [gelapsed EXCEPT ![g] = now - lastAccess[gsess[g]]]
            /\ IF Before(heap[gsess[g]].ExpiresAt, now)
               THEN /\ gres' = [gres EXCEPT ![g] = "NotFound"]
                    /\ gpc' = [gpc EXCEPT ![g] = "ret"]
               ELSE /\ gpc' = [gpc EXCEPT ![g] = "refresh"]
                    /\ gres' = gres
    /\ UNCHANGED <<now, expiration, sessions, heap, writer, readers, cpc, cid,
                   spc, snow, stodo, scur, gid, gsess, dpc, did,
                   lastAccess, gafter, tomb>>
    /\ Observe

\* line 69: session.ExpiresAt = time.Now().Add(m.expiration), with no lock held
GetRefresh(g) ==
    /\ gpc[g] = "refresh"
    /\ heap' = [heap EXCEPT ![gsess[g]].ExpiresAt = Add(now, expiration)]
    /\ lastAccess' = [lastAccess EXCEPT ![gsess[g]] = now]
    /\ gres' = [gres EXCEPT ![g] = "ok"]
    /\ gpc' = [gpc EXCEPT ![g] = "ret"]
    /\ UNCHANGED <<now, expiration, sessions, writer, readers, cpc, cid,
                   spc, snow, stodo, scur, gid, gsess, dpc, did,
                   gelapsed, gafter, tomb>>
    /\ Observe

\* lines 65, 70: return; the goroutine is free for its next call
GetReturn(g) ==
    /\ gpc[g] = "ret"
    /\ gpc' = [gpc EXCEPT ![g] = "idle"]
    /\ gid' = [gid EXCEPT ![g] = BogusID]
    /\ gsess' = [gsess EXCEPT ![g] = NoSession]
    /\ gres' = [gres EXCEPT ![g] = "none"]
    /\ gelapsed' = [gelapsed EXCEPT ![g] = -1]
    /\ gafter' = [gafter EXCEPT ![g] = ""]
    /\ UNCHANGED <<now, expiration, sessions, heap, writer, readers, cpc, cid,
                   spc, snow, stodo, scur, dpc, did,
                   lastAccess, tomb>>
    /\ Observe

\* ------------------------------------------------------------- DeleteSession
\* lines 74-75: the call and m.mu.Lock()
DeleteLock(d, id) ==
    /\ dpc[d] = "idle"
    /\ LockFree
    /\ id \in KnownIDs
    /\ writer' = Proc("delete", d)
    /\ did' = [did EXCEPT ![d] = id]
    /\ dpc' = [dpc EXCEPT ![d] = "delete"]
    /\ UNCHANGED <<now, expiration, sessions, heap, readers, cpc, cid,
                   spc, snow, stodo, scur, gpc, gid, gsess, gres,
                   lastAccess, gelapsed, gafter, tomb>>
    /\ Observe

\* lines 76-78: delete(m.sessions, sessionID); m.mu.Unlock(); return
DeleteDo(d) ==
    /\ dpc[d] = "delete"
    /\ sessions' = MapDelete(sessions, did[d])
    /\ tomb' = (did[d] :> (IF did[d] \notin DOMAIN sessions THEN "absent"
                           ELSE IF Live(sessions, heap, now, did[d]) THEN "active"
                           ELSE "expired")) @@ tomb
    /\ writer' = NoProc
    /\ did' = [did EXCEPT ![d] = BogusID]
    /\ dpc' = [dpc EXCEPT ![d] = "idle"]
    /\ UNCHANGED <<now, expiration, heap, readers, cpc, cid,
                   spc, snow, stodo, scur, gpc, gid, gsess, gres,
                   lastAccess, gelapsed, gafter>>
    /\ Observe

\* ------------------------------------------------------------- specification
\* One session created, looked up by two clients and deleted by a third.
Init == SessionInit({1}, Getters, Deleters)

Next ==
    \/ Tick
    \/ \E c \in Creators, randOK \in BOOLEAN : CreateNew(c, randOK)
    \/ \E c \in Creators : CreateLock(c)
    \/ \E c \in Creators : CreateInsert(c)
    \/ \E s \in Creators : SweepLock(s)
    \/ \E s \in Creators : \E id \in stodo[s] : SweepExamine(s, id)
    \/ \E s \in Creators : SweepDelete(s)
    \/ \E s \in Creators : SweepUnlock(s)
    \/ \E g \in Getters : \E id \in KnownIDs : GetRLock(g, id)
    \/ \E g \in Getters : GetRUnlock(g)
    \/ \E g \in Getters : GetCheck(g)
    \/ \E g \in Getters : GetRefresh(g)
    \/ \E g \in Getters : GetReturn(g)
    \/ \E d \in Deleters : \E id \in KnownIDs : DeleteLock(d, id)
    \/ \E d \in Deleters : DeleteDo(d)

Spec == Init /\ [][Next]_vars

\* Concurrent CreateSession calls and the sweeps they spawn, no other caller.
InitCreate == SessionInit(Creators, {}, {})

NextCreate ==
    \/ Tick
    \/ \E c \in Creators, randOK \in BOOLEAN : CreateNew(c, randOK)
    \/ \E c \in Creators : CreateLock(c)
    \/ \E c \in Creators : CreateInsert(c)
    \/ \E s \in Creators : SweepLock(s)
    \/ \E s \in Creators : \E id \in stodo[s] : SweepExamine(s, id)
    \/ \E s \in Creators : SweepDelete(s)
    \/ \E s \in Creators : SweepUnlock(s)

SpecCreate == InitCreate /\ [][NextCreate]_vars

\* The same under fair scheduling: a goroutine that can take a step takes one
\* (the Go scheduler runs every runnable goroutine), and a goroutine waiting in
\* m.mu.Lock() gets the lock if it is free again and again (sync.Mutex hands
\* the lock to a waiter that has been starved).
CreateStep(c) == CreateLock(c) \/ CreateInsert(c)
SweepStep(s) ==
    \/ \E id \in stodo[s] : SweepExamine(s, id)
    \/ SweepDelete(s)
    \/ SweepUnlock(s)

FairCreate ==
    \A c \in Creators :
        /\ SF_vars(CreateLock(c)) /\ WF_vars(CreateStep(c))
        /\ SF_vars(SweepLock(c)) /\ WF_vars(SweepStep(c))

SpecCreateFair == SpecCreate /\ FairCreate

\* One sweep on its own: the CreateSession calls in cs have returned, each
\* entry is in the map with the ExpiresAt of expires, the sweep of call 1 has
\* not taken the lock yet and the sweeps of the other calls have returned.
InitSweep ==
    \E cs \in {x \in SUBSET Creators : 1 \in x} :
    \E t \in 0..MaxTime :
    \E expires \in [cs -> Lifetime..(MaxTime + Lifetime)] :
        /\ \A c \in cs : expires[c] <= t + Lifetime
        /\ now = t
        /\ expiration = Lifetime
        /\ sessions = [id \in {RandomID(c) : c \in cs} |-> id.n]
        /\ heap = [c \in cs |-> [ID |-> RandomID(c), Values |-> {},
                                  ExpiresAt |-> expires[c]]]
        /\ writer = NoProc
        /\ readers = {}
        /\ cpc = [c \in Creators |-> IF c \in cs THEN "done" ELSE "off"]
        /\ cid = [c \in Creators |-> IF c \in cs THEN RandomID(c) ELSE BogusID]
        /\ spc = [c \in Creators |-> IF c = 1 THEN "lock"
                                      ELSE IF c \in cs THEN "done" ELSE "none"]
        /\ snow = [c \in Creators |-> 0]
        /\ stodo = [c \in Creators |-> {}]
        /\ scur = [c \in Creators |-> BogusID]
        /\ gpc = [g \in Getters |-> "off"]
        /\ gid = [g \in Getters |-> BogusID]
        /\ gsess = [g \in Getters |-> NoSession]
        /\ gres = [g \in Getters |-> "none"]
        /\ dpc = [d \in Deleters |-> "off"]
        /\ did = [d \in Deleters |-> BogusID]
        /\ lastAccess = [c \in cs |-> expires[c] - Lifetime]
        /\ gvalid = [g \in Getters |-> FALSE]
        /\ gelapsed = [g \in Getters |-> -1]
        /\ gafter = [g \in Getters |-> ""]
        /\ tomb = <<>>
        /\ hpc = "off"
        /\ password = <<>>
        /\ candidate = <<>>
        /\ hashed = [encoded |-> <<>>, err |-> "nil"]
        /\ verified = [matched |-> FALSE, err |-> "nil"]
        /\ hrand = TRUE
        /\ stored = <<>>
        /\ derived = FALSE

NextSweep ==
    \/ Tick
    \/ \E s \in Creators : SweepLock(s)
    \/ \E s \in Creators : \E id \in stodo[s] : SweepExamine(s, id)
    \/ \E s \in Creators : SweepDelete(s)
    \/ \E s \in Creators : SweepUnlock(s)

SpecSweep == InitSweep /\ [][NextSweep]_vars

\* Two sessions created and swept while a third caller deletes.
InitDelete == SessionInit(Creators, {}, Deleters)

NextDelete ==
    \/ NextCreate
    \/ \E d \in Deleters : \E id \in KnownIDs : DeleteLock(d, id)
    \/ \E d \in Deleters : DeleteDo(d)

SpecDelete == InitDelete /\ [][NextDelete]_vars

\* ------------------------------------------------------------- hasher specification
\* A caller hashes a password and then verifies a candidate against the result.
InitHash ==
    /\ now = 0
    /\ expiration = Lifetime
    /\ sessions = <<>>
    /\ heap = <<>>
    /\ writer = NoProc
    /\ readers = {}
    /\ cpc = [c \in Creators |-> "off"]
    /\ cid = [c \in Creators |-> BogusID]
    /\ spc = [c \in Creators |-> "none"]
    /\ snow = [c \in Creators |-> 0]
    /\ stodo = [c \in Creators |-> {}]
    /\ scur = [c \in Creators |-> BogusID]
    /\ gpc = [g \in Getters |-> "off"]
    /\ gid = [g \in Getters |-> BogusID]
    /\ gsess = [g \in Getters |-> NoSession]
    /\ gres = [g \in Getters |-> "none"]
    /\ dpc = [d \in Deleters |-> "off"]
    /\ did = [d \in Deleters |-> BogusID]
    /\ lastAccess = <<>>
    /\ gvalid = [g \in Getters |-> FALSE]
    /\ gelapsed = [g \in Getters |-> -1]
    /\ gafter = [g \in Getters |-> ""]
    /\ tomb = <<>>
    /\ hpc = "start"
    /\ password \in Passwords
    /\ candidate \in Passwords
    /\ hashed = [encoded |-> <<>>, err |-> "nil"]
    /\ verified = [matched |-> FALSE, err |-> "nil"]
    /\ hrand = TRUE
    /\ stored = <<>>
    /\ derived = FALSE

\* encodedHash, err := HashPassword(password)
Hash(randOK, salt) ==
    /\ hpc = "start"
    /\ hashed' = HashPassword(password, randOK, salt)
    /\ hrand' = randOK
    /\ derived' = HashCallsIDKey(randOK)
    /\ hpc' = "hashed"
    /\ UNCHANGED <<password, candidate, verified, stored>>
    /\ UNCHANGED svars

\* matched, err := VerifyPassword(candidate, encodedHash)
Verify ==
    /\ hpc = "hashed"
    /\ verified' = VerifyPassword(candidate, hashed.encoded)
    /\ derived' = VerifyCallsIDKey(hashed.encoded)
    /\ hpc' = "verified"
    /\ UNCHANGED <<password, candidate, hashed, hrand, stored>>
    /\ UNCHANGED svars

NextHash ==
    \/ \E randOK \in BOOLEAN, salt \in Salts(DefaultSaltLength) : Hash(randOK, salt)
    \/ Verify

SpecHash == InitHash /\ [][NextHash]_vars

\* ------------------------------------------------------------- verification of stored hashes
\* the candidate is the password the stored hash was made for, or another one
InitVerify == InitHash /\ candidate \in {password, <<"a">>}

\* the caller reads a stored hash (from its user table) to check against
Load ==
    /\ hpc = "start"
    /\ stored' \in StoredHashes(password)
    /\ hpc' = "stored"
    /\ UNCHANGED <<password, candidate, hashed, verified, hrand, derived>>
    /\ UNCHANGED svars

\* matched, err := VerifyPassword(candidate, stored hash)
VerifyStored ==
    /\ hpc = "stored"
    /\ verified' = VerifyPassword(candidate, EncodedOf(stored))
    /\ derived' = VerifyCallsIDKey(EncodedOf(stored))
    /\ hpc' = "checked"
    /\ UNCHANGED <<password, candidate, hashed, hrand, stored>>
    /\ UNCHANGED svars

NextVerify ==
    \/ Load
    \/ VerifyStored

SpecVerify == InitVerify /\ [][NextVerify]_vars

\* ------------------------------------------------------------- claims: session store
IssuedIDs == KnownIDs \ {BogusID}

\* C1: the store never returns an expired session.  A GetSession call that
\* returns a session saw, at some moment between its RLock and its return, its
\* id present in the map with an ExpiresAt not earlier than the clock; a call
\* during which the id was absent or expired at every moment returns NotFound.
C1_NeverReturnsExpired ==
    \A g \in Getters : (gpc[g] = "ret" /\ gres[g] = "ok") => gvalid[g]

\* C2: the refresh of ExpiresAt inside GetSession has write-level exclusivity:
\* while a getter is about to assign ExpiresAt, no goroutine holds the write
\* lock (no Create insert, Delete or sweep is in its critical section) and no
\* other getter is checking or refreshing the same session.
C2_RefreshIsExclusive ==
    \A g \in Getters :
        gpc[g] = "refresh" =>
            /\ writer = NoProc
            /\ \A h \in Getters \ {g} :
                 ~(gpc[h] \in {"check", "refresh"} /\ gsess[h] = gsess[g])

\* C3: a sweep removes an entry only if, at the moment of the removal, the
\* entry's ExpiresAt is earlier than the sweep's timestamp.
C3_SweepRemovesOnlyExpired ==
    \A s \in Creators :
        spc[s] = "del" => Before(heap[sessions[scur[s]]].ExpiresAt, snow[s])

C5_ElapsedAtLeastLifetime ==
    \A g \in Getters :
        (gpc[g] = "ret" /\ gelapsed[g] >= expiration) => gres[g] = "NotFound"

\* C5 amended: a GetSession that evaluates line 64 when the time since the
\* entry's creation or last refresh is strictly greater than the lifetime
\* returns NotFound (at exactly the lifetime the session is still returned).
C5_ElapsedOverLifetime ==
    \A g \in Getters :
        (gpc[g] \in {"refresh", "ret"} /\ gelapsed[g] > expiration)
            => (gpc[g] = "ret" /\ gres[g] = "NotFound")

\* C5 witness: a call found its entry older than the lifetime and is
\* returning NotFound, the entry still unswept in the map.
C5_Witness ==
    \E g \in Getters :
        /\ gpc[g] = "ret" /\ gres[g] = "NotFound"
        /\ gsess[g] # NoSession
        /\ gelapsed[g] > expiration
        /\ gid[g] \in DOMAIN sessions

\* C6: Expired is terminal.  An issued id that is not retrievable (absent from
\* the map, or present with ExpiresAt earlier than the clock) never becomes
\* retrievable again, whatever step is taken.
C6_ExpiredIsTerminal ==
    [][\A id \in IssuedIDs :
         ~Live(sessions, heap, now, id) => ~Live(sessions', heap', now', id)]_vars

\* C7: a GetSession(id) that starts after a DeleteSession(id) has completed
\* (and before any later insertion of that id) returns NotFound, whatever the
\* Delete found: an active entry, an expired unswept entry, or none.
C7_GetAfterDelete ==
    \A g \in Getters :
        (gpc[g] = "ret" /\ gafter[g] # "") => gres[g] = "NotFound"

\* C7 witness: a call that started after the Delete of an active entry is
\* returning NotFound.
C7_Witness ==
    \E g \in Getters :
        gpc[g] = "ret" /\ gafter[g] = "active" /\ gres[g] = "NotFound"

\* C8: once all the concurrent CreateSession calls have returned, the clock
\* not having advanced, the map holds one entry per call and the ids handed
\* out are pairwise distinct.
C8_NoLostCreate ==
    ((\A c \in Creators : cpc[c] = "done") /\ now = 0)
        => /\ Cardinality(DOMAIN sessions) = Cardinality(Creators)
           /\ \A c1, c2 \in Creators : c1 # c2 => cid[c1] # cid[c2]

\* ------------------------------------------------------------- claims: password hasher
\* C9: round trip.  For every non-empty password p and every salt drawn,
\* VerifyPassword(p, HashPassword(p)) returns (true, nil).
C9_RoundTrip ==
    (/\ hpc = "verified" /\ hashed.err = "nil"
     /\ Len(password) > 0 /\ candidate = password)
        => verified = [matched |-> TRUE, err |-> "nil"]

\* C9 witness: a non-empty password was hashed and verified against itself.
C9_Witness ==
    /\ hpc = "verified" /\ hashed.err = "nil"
    /\ Len(password) > 0 /\ candidate = password
    /\ verified.matched

\* C10: a mismatch is a result, not an error.  For passwords p # q,
\* VerifyPassword(q, HashPassword(p)) returns (false, nil).
C10_Mismatch ==
    (hpc = "verified" /\ hashed.err = "nil" /\ candidate # password)
        => verified = [matched |-> FALSE, err |-> "nil"]

\* C10 witness: a password was hashed and another one, of the same length,
\* was verified against the result.
C10_Witness ==
    /\ hpc = "verified" /\ hashed.err = "nil"
    /\ candidate # password /\ Len(candidate) = Len(password)
    /\ verified = [matched |-> FALSE, err |-> "nil"]

\* a stored hash with the right segments and tag that departs from the format
\* inside a field
FieldDeviates(f) ==
    \/ f.version.kind \in {"trailing", "nonint", "missing"}
    \/ f.cost.kind \in {"range", "trailing", "missing", "nonint"}
    \/ f.salt.kind = "padded"
    \/ f.key.kind = "padded"

\* C11: every structural deviation is InvalidHashFormat.  VerifyPassword
\* returns ErrInvalidHash for every 6-segment, correctly tagged string with a
\* missing or non-integer version or cost field, characters after a numeric
\* field, an out-of-range integer, or a padded salt or key (version fields
\* that are integers other than the supported one are left to C13).
C11_DeviationIsInvalidHash ==
    (/\ hpc = "checked" /\ ShapeOK(stored)
     /\ stored.version.kind # "other" /\ FieldDeviates(stored))
        => verified.err = "ErrInvalidHash"

\* C12: a string with fewer or more than 6 segments, a non-empty first
\* segment or another algorithm tag gives (false, ErrInvalidHash), and
\* argon2.IDKey is not reached.
C12_BadShape ==
    (hpc = "checked" /\ ~ShapeOK(stored))
        => /\ verified = [matched |-> FALSE, err |-> "ErrInvalidHash"]
           /\ ~derived

\* C12 witness: a correctly tagged string of seven segments was refused.
C12_Witness ==
    /\ hpc = "checked" /\ stored.shape = "seven"
    /\ stored.lead = <<>> /\ stored.tag = AlgorithmTag
    /\ verified.err = "ErrInvalidHash"

\* C13: a 6-segment, correctly tagged string whose version field is an
\* integer other than argon2.Version gives (false, ErrIncompatibleVersion),
\* whatever its cost, salt and key segments hold.
C13_OtherVersion ==
    (hpc = "checked" /\ ShapeOK(stored) /\ stored.version.kind = "other")
        => verified = [matched |-> FALSE, err |-> "ErrIncompatibleVersion"]

\* C13 witness: a string of another version whose cost field has a time cost
\* of 0 and whose key is padded was refused for its version.
C13_Witness ==
    /\ hpc = "checked" /\ ShapeOK(stored) /\ stored.version.kind = "other"
    /\ stored.cost.kind = "zero" /\ stored.key.kind = "padded"
    /\ verified.err = "ErrIncompatibleVersion"

\* C14: VerifyPassword returns to its caller for every password and every
\* encoded string: no call ends in a panic.
C14_VerifyReturns == hpc = "checked" => verified.err # "panic"

\* a stored hash in the format, with costs argon2 accepts
WellFormed(f) ==
    /\ ShapeOK(f) /\ f.version.kind = "ok" /\ f.cost.kind = "ok"
    /\ f.salt.kind = "ok" /\ f.key.kind \in {"derived", "other"}

\* C15: verification uses the embedded parameters.  For every well-formed
\* stored hash E, those with non-default costs and lengths included,
\* VerifyPassword(p, E) is (m, nil) where m says that E's key is the
\* derivation of p under E's costs, E's salt and the length of E's key.
C15_EmbeddedParams ==
    (hpc = "checked" /\ WellFormed(stored))
        => verified =
             [matched |-> stored.key.bytes =
                            IDKey(Bytes(candidate), stored.salt.bytes,
                                  stored.cost.time, stored.cost.memory,
                                  stored.cost.threads, Len(stored.key.bytes)),
              err |-> "nil"]

\* C15 witness: a password matched a hash none of whose costs and lengths is
\* the default.
C15_Witness ==
    /\ hpc = "checked" /\ WellFormed(stored)
    /\ stored.cost.memory # DefaultMemory /\ stored.cost.time # DefaultTime
    /\ stored.cost.threads # DefaultThreads
    /\ Len(stored.salt.bytes) # DefaultSaltLength
    /\ Len(stored.key.bytes) # DefaultKeyLen
    /\ verified = [matched |-> TRUE, err |-> "nil"]

\* C19: when rand.Read fails, HashPassword returns the empty string and an
\* error, and argon2.IDKey is not reached.
C19_HashFailsHard ==
    (hpc = "hashed" /\ ~hrand)
        => hashed.encoded = <<>> /\ hashed.err # "nil" /\ ~derived

\* C19 witness: a HashPassword call in which rand.Read failed has returned.
C19_Witness ==
    hpc = "hashed" /\ ~hrand /\ hashed.err = "RandomSourceFailure"

\* C18: fallback ids are unique.  Two CreateSession calls whose rand.Read
\* failed never hold the same id, and a fallback id about to be inserted is
\* not the key of an entry already in the map.
C18_FallbackUnique ==
    /\ \A c1, c2 \in Creators :
         (/\ c1 # c2
          /\ cpc[c1] \in {"lock", "insert", "done"} /\ cid[c1].kind = "time"
          /\ cpc[c2] \in {"lock", "insert", "done"} /\ cid[c2].kind = "time")
            => cid[c1] # cid[c2]
    /\ \A c \in Creators :
         (cpc[c] = "insert" /\ cid[c].kind = "time")
            => cid[c] \notin DOMAIN sessions

\* C20: DeleteSession(id) removes id's entry whether active or expired, changes
\* nothing when id is absent, leaves every other entry and every session
\* object as it was, and a second DeleteSession(id) on the result changes
\* nothing.
C20_DeleteRemovesOnlyId ==
    [][\A d \in Deleters :
         (dpc[d] = "delete" /\ dpc'[d] = "idle")
            => /\ did[d] \notin DOMAIN sessions'
               /\ DOMAIN sessions' = DOMAIN sessions \ {did[d]}
               /\ \A k \in DOMAIN sessions' : sessions'[k] = sessions[k]
               /\ heap' = heap
               /\ did[d] \notin DOMAIN sessions => sessions' = sessions
               /\ MapDelete(sessions', did[d]) = sessions']_vars

\* C20 witness: an expired entry has been deleted and another entry is still
\* in the map.
C20_Witness ==
    \E id \in DOMAIN tomb :
        /\ tomb[id] = "expired"
        /\ \E k \in DOMAIN sessions : k # id

\* C16: every CreateSession is followed by a completed sweep.  Under fair
\* scheduling the sweep a CreateSession has spawned eventually returns, and
\* in the state it returns in no entry of the map has an ExpiresAt earlier
\* than the time the sweep read.
C16_SweepFollowsCreate ==
    /\ \A c \in Creators : (cpc[c] = "done") ~> (spc[c] = "done")
    /\ [][\A s \in Creators :
            (spc[s] = "loop" /\ spc'[s] = "done")
               => \A id \in DOMAIN sessions' :
                    heap'[sessions'[id]].ExpiresAt >= snow[s]]_vars

\* C16 witness: the sweep of a CreateSession has returned and that call's
\* own entry is gone from the map.
C16_Witness ==
    \E c \in Creators :
        cpc[c] = "done" /\ spc[c] = "done" /\ cid[c] \notin DOMAIN sessions

\* the entries inserted so far, as one map (calls that drew the same id hold
\* objects with the same ExpiresAt)
Inserted ==
    [id \in {cid[c] : c \in {x \in Creators : cpc[x] = "done"}} |->
        CHOOSE c \in Creators : cpc[c] = "done" /\ cid[c] = id]

\* some call or sweep has a step left / can take one
Unfinished ==
    \E c \in Creators : cpc[c] \in {"lock", "insert"} \/ spc[c] \in {"lock", "loop", "del"}
Progress ==
    \E c \in Creators : CreateStep(c) \/ SweepLock(c) \/ SweepStep(c)

\* C17: sweeps are independent and idempotent.  While CreateSession calls and
\* the sweeps they spawned are in flight one of them can take a step (no
\* deadlock); whenever a sweep returns, the map holds the ids a single sweep
\* at that sweep's time (the latest so far) leaves of all the entries
\* inserted, each with an object inserted under it; and every delete a sweep
\* issues is for an entry that is in the map.
C17_SweepsCompose ==
    /\ [](Unfinished => ENABLED Progress)
    /\ [](\A s \in Creators : spc[s] = "del" => scur[s] \in DOMAIN sessions)
    /\ [][\A s \in Creators :
            (spc[s] = "loop" /\ spc'[s] = "done")
               => /\ DOMAIN sessions' = DOMAIN Sweep(Inserted, heap, snow[s])
                  /\ \A id \in DOMAIN sessions' : cid[sessions'[id]] = id]_vars

\* C17 witness: both sweeps have returned, having removed one entry and kept
\* another.
C17_Witness ==
    /\ \A c \in Creators : spc[c] = "done"
    /\ \E c \in Creators : cid[c] \notin DOMAIN sessions
    /\ \E c \in Creators : cid[c] \in DOMAIN sessions

\* C21: a sweep on its own removes exactly the expired entries.  When a sweep
\* that ran with no other operation returns, an entry that was in the map is
\* still there exactly if its ExpiresAt is not earlier than the time the
\* sweep read, under the same key and with the same object, and no session
\* object has changed on the way.
C21_SweepExact ==
    [][/\ heap' = heap
       /\ \A s \in Creators :
            (spc[s] = "loop" /\ spc'[s] = "done")
               => \A c \in Creators :
                    cpc[c] = "done"
                       => /\ cid[c] \in DOMAIN sessions'
                               <=> heap[c].ExpiresAt >= snow[s]
                          /\ cid[c] \in DOMAIN sessions'
                               => sessions'[cid[c]] = c]_vars

\* C21 witness: the sweep has returned, one entry is gone and another, not
\* expired, is still in the map.
C21_Witness ==
    /\ spc[1] = "done"
    /\ \E c \in Creators : cpc[c] = "done" /\ cid[c] \notin DOMAIN sessions
    /\ \E c \in Creators : cpc[c] = "done" /\ cid[c] \in DOMAIN sessions

WriteHolders ==
    {Proc("create", c) : c \in {x \in Creators : cpc[x] = "insert"}}
    \cup {Proc("sweep", s) : s \in {x \in Creators : spc[x] \in {"loop", "del"}}}
    \cup {Proc("delete", d) : d \in {x \in Deleters : dpc[x] = "delete"}}
ReadHolders == {g \in Getters : gpc[g] = "runlock"}

\* C23: the map is accessed under the lock, in the right mode.  The
\* goroutines inside CreateSession's insert, DeleteSession's delete and the
\* sweep's loop are exactly the holder of the write lock, and there is at
\* most one; the goroutines between GetSession's RLock and RUnlock are
\* exactly the holders of the read lock; a write holder excludes every other
\* holder; and a goroutine that has left these sections (returned, on any
\* path) holds nothing.
C23_LockDiscipline ==
    /\ WriteHolders = (IF writer = NoProc THEN {} ELSE {writer})
    /\ ReadHolders = readers
    /\ writer # NoProc => readers = {}
    /\ Cardinality(WriteHolders) <= 1
    /\ WriteHolders # {} => ReadHolders = {}

\* C23 witness: two GetSession calls hold the read lock at the same time.
C23_Witness == Cardinality(readers) = 2 /\ writer = NoProc

\* C24: GetSession never hands out an evicted session.  With no
\* DeleteSession of the id, when GetSession returns a session the map still
\* holds that session under the id.
C24_ReturnedIsStored ==
    \A g \in Getters :
        (gpc[g] = "ret" /\ gres[g] = "ok" /\ gid[g] \notin DOMAIN tomb)
            => /\ gid[g] \in DOMAIN sessions
               /\ sessions[gid[g]] = gsess[g]

====
